---- MODULE Spec2Model ----
(***************************************************************************)
(* Model of the session and process reliability layer of the IBKR REST     *)
(* bridge, in five parts over one state:                                    *)
(*  - Spec, FairSpec: the Session Lifecycle Manager (IbkrSessionManager),  *)
(*    driven through the AuthenticationService calls it makes, with        *)
(*    login() seen from outside;                                           *)
(*  - AuthSpec: the Authentication Protocol Engine (IbkrAuthService), each *)
(*    of its calls step by step against the replies of the gateway;        *)
(*  - RepoSpec: the in-memory session repository and the session objects   *)
(*    it hands out;                                                        *)
(*  - GatewaySpec: the Gateway Process Supervisor (IbkrGatewayManager),     *)
(*    with the child processes it spawns and the timers it sets;           *)
(*  - ClientSpec: the Session Lifecycle Manager together with the requests *)
(*    the Gateway Client (GatewayClient) sends for the callers of the API. *)
(* Execution is single-threaded and cooperative: a step of the model is    *)
(* the code that runs between two suspension points (an awaited gateway    *)
(* call or a timer).                                                       *)
(***************************************************************************)
EXTENDS Integers, Sequences, FiniteSets, TLC

(* ---------------------------- bounds ---------------------------------- *)
\* number of calls from outside explored in one behaviour: start(), stop(),
\* waitForReauth() and firings of a heartbeat timer, in any mix
MaxCalls == 4
\* the largest time value explored, in the unit of time below
MaxTime == 8
\* number of requests of the API's callers explored in one behaviour
MaxRequests == 1
\* number of calls of the supervisor's start() and stop() from outside explored
\* in one behaviour, in any mix
MaxGatewayCalls == 3
\* number of gateway child processes alive at once, and of start() calls in
\* progress at once
MaxChildren == 2
\* number of timers of a kind, health-check intervals or restart timers, that
\* run while no field of the supervisor refers to them
MaxLeaked == 1

(* ------------------------ program constants --------------------------- *)
\* variant: one attempt too many
MAX_REAUTH_ATTEMPTS_PlusOne == 3 + 1
\* const MAX_REAUTH_ATTEMPTS = 3;
MAX_REAUTH_ATTEMPTS == 3
\* const MAX_RESTART_ATTEMPTS = 5;
MAX_RESTART_ATTEMPTS == 5

\* Times are counted in units of 236 671 200 000 ms, a quarter of the year-2000
\* threshold, so that they fit the checker's integers:
\* const YEAR_2000_MS = 946684800000;
YEAR_2000_MS == 4

\* the credentials object passed by the i-th start() call is named i; null is 0
NoCredentials == 0
CredentialsOf(i) == i

SessionStatus ==
  {"disconnected", "authenticating", "awaiting_totp", "authenticated", "expired"}

StoppedError == "Session manager stopped"
ReauthFailedError == "Re-authentication failed"

VARIABLES
  credentials,        \* IbkrSessionManager.credentials
  heartbeatInterval,  \* IbkrSessionManager.heartbeatInterval is not null
  reauthenticating,   \* IbkrSessionManager.reauthenticating
  reauthResolvers,    \* IbkrSessionManager.reauthResolvers (waiter ids, in list order)
  stopped,            \* IbkrSessionManager.stopped
  session,            \* IbkrSessionRepository.session
  activeTimers,       \* number of setInterval timers not yet cleared
  startCall,          \* the start() calls: where each is, and how it ended
  stopCall,           \* the stop() calls: where each is, and how it ended
  tick,               \* the heartbeat timer callbacks, one per firing
  waiter              \* the promise of each waitForReauth() call

VARIABLES
  totpSecret,         \* IbkrAuthService.totpSecret is configured
  currentTotpSecret,  \* IbkrAuthService.currentTotpSecret is set
  call,               \* the call of the authentication service in progress
  last,               \* how the last call of the authentication service ended
  held,               \* the session object getSession() handed out last, if any
  dateTouched         \* stored Date objects changed in place from outside

VARIABLES
  gw                  \* IbkrGatewayManager: its fields, the child processes it
                      \* spawned, its timers and its calls in progress

VARIABLES
  wire                \* the requests GatewayClient has sent to the gateway for
                      \* the API's repositories, in the order they were sent

\* the fields of the authentication service and the calls made to it
engineVars == <<totpSecret, currentTotpSecret, call, last>>
\* the objects outside the repository that came from it
repoVars == <<held, dateTouched>>
\* the gateway process supervisor
gwVars == <<gw>>
\* the gateway client
clientVars == <<wire>>

vars ==
  <<credentials, heartbeatInterval, reauthenticating, reauthResolvers, stopped,
    session, activeTimers, startCall, stopCall, tick, waiter, engineVars, repoVars,
    gwVars, clientVars>>

(* ------------------------- session repository ------------------------- *)
\* private session: Session = { status: 'disconnected' }
EmptySession ==
  [status |-> "disconnected", authenticatedAt |-> FALSE, lastHeartbeat |-> FALSE]

\* updateSession({ status })
SetStatus(s, st) == [s EXCEPT !.status = st]

\* variant: the timestamp is written, the status is left as it is
SetAuthenticatedStampOnly(s) == [s EXCEPT !.authenticatedAt = TRUE]
\* updateSession({ status: 'authenticated', authenticatedAt: new Date() })
SetAuthenticated(s) == [s EXCEPT !.status = "authenticated", !.authenticatedAt = TRUE]

\* updateSession({ lastHeartbeat: now })
SetLastHeartbeat(s) == [s EXCEPT !.lastHeartbeat = TRUE]

\* variant: clearSession() resets the status only
ClearSessionKeepsTimestamps == [session EXCEPT !.status = "disconnected"]
\* clearSession()
ClearSession == EmptySession

(* ----------------------- authentication service ----------------------- *)
\* login(): the first statement, before the first gateway call
LoginEnter(s) == SetStatus(s, "authenticating")

\* handleTotpChallenge(): session-init answered with a challenge
LoginChallenged(s) == SetStatus(s, "awaiting_totp")

\* The ways login() throws, as the session manager sees them: the error's code
\* and whether the throw is preceded by updateSession({ status: 'disconnected' })
\* (clears).  Before a challenge, login() throws HEADLESS_LOGIN_FAILED when the
\* login capability fails (clears) and COMPETING_SESSION when the gateway
\* reports a competing session (status left as it is); after a challenge,
\* TOTP_FAILED when the response is refused (status left as it is).  The manager
\* reads no code, so one code stands for each way of acting on the session;
\* the steps of login() and every error it throws are in Login .. LoginRetry
\* below, where a transport failure after a challenge (UNKNOWN) also resets
\* the status.
LoginFailures(pc) ==
  IF pc = "login"
  THEN {[code |-> "HEADLESS_LOGIN_FAILED", clears |-> TRUE],
        [code |-> "COMPETING_SESSION", clears |-> FALSE]}
  ELSE {[code |-> "TOTP_FAILED", clears |-> FALSE]}

LoginFailed(s, f) == IF f.clears THEN SetStatus(s, "disconnected") ELSE s

\* heartbeat(): the three outcomes of the tickle call
HeartbeatOutcomes == {"valid", "invalid", "error"}

\* variant: a failed tickle call marks the session expired
HeartbeatSessionExpiresOnError(s, outcome) ==
  IF outcome # "valid"
  THEN SetStatus(SetLastHeartbeat(s), "expired")
  ELSE SetLastHeartbeat(s)
\* heartbeat(): the session after the tickle call has ended
HeartbeatSession(s, outcome) ==
  IF outcome = "invalid"
  THEN SetStatus(SetLastHeartbeat(s), "expired")
  ELSE SetLastHeartbeat(s)

\* heartbeat(): result.valid
HeartbeatValid(outcome) == outcome = "valid"

(* ------------------------------ promises ------------------------------ *)
\* The promise a waitForReauth() call returned.  blocked: the call found a
\* re-authentication in flight and was suspended on the waiter list.
NotCalled == [state |-> "none", error |-> "", blocked |-> FALSE]
Pending == [state |-> "pending", error |-> "", blocked |-> TRUE]
Resolved == [state |-> "resolved", error |-> "", blocked |-> FALSE]
Rejected(e) == [state |-> "rejected", error |-> e, blocked |-> FALSE]
\* resolve() / reject(error) of a suspended caller
Settled(p) == [p EXCEPT !.blocked = TRUE]

\* `Session not authenticated: ${session.status}`
StatusError(st) ==
  CASE st = "disconnected" -> "Session not authenticated: disconnected"
    [] st = "authenticating" -> "Session not authenticated: authenticating"
    [] st = "awaiting_totp" -> "Session not authenticated: awaiting_totp"
    [] st = "expired" -> "Session not authenticated: expired"
    [] OTHER -> "Session not authenticated: authenticated"

Range(q) == {q[k] : k \in DOMAIN q}

\* variant: the list keeps the callers that were settled
ClearedKeeps(q) == q
\* this.reauthResolvers = [];
Cleared(q) == <<>>

\* for (const { resolve | reject } of this.reauthResolvers) ...
SettleAll(outcome) ==
  [w \in DOMAIN waiter |-> IF w \in Range(reauthResolvers) THEN Settled(outcome) ELSE waiter[w]]

(* ------------------------------- calls -------------------------------- *)
\* a start() call: where it is and how it ended
IdleCall == [pc |-> "idle", res |-> ""]
\* a stop() call: where it is, how its logout() call ended, how it ended
IdleStop == [pc |-> "idle", res |-> "", logout |-> ""]
\* a run of the heartbeat timer callback.  attempt and lastError are the
\* locals of triggerReauth(); logins and fails count the login() calls this
\* run has made and those that threw; loginWith is the argument of the
\* login() call it awaits.
IdleTick ==
  [pc |-> "idle", attempt |-> 0, lastError |-> "", logins |-> 0, fails |-> 0,
   loginWith |-> NoCredentials]
\* the callback has returned: its locals are gone
DoneTick(t) ==
  [t EXCEPT !.pc = "done", !.attempt = 0, !.lastError = "",
            !.loginWith = NoCredentials]

InLogin(pc) == pc \in {"login", "totp"}
InReauth(pc) == pc \in {"login", "totp", "backoff"}

Called(f) == Cardinality({k \in DOMAIN f : f[k].pc # "idle"})

\* calls made so far
Calls ==
  Called(startCall) + Called(stopCall) + Called(tick)
    + Cardinality({w \in DOMAIN waiter : waiter[w].state # "none"})

\* a call of the authentication service: no call in progress.  initError is
\* the local of login()'s inner catch, now the local of heartbeat()
NoCall == [op |-> "none", pc |-> "", initError |-> "", invoked |-> {}, now |-> 0]
\* no call of the authentication service has ended since the last one began
NoLast ==
  [op |-> "none", outcome |-> "", error |-> "", invoked |-> {}, now |-> 0,
   reply |-> {}, result |-> {}]

\* a ChildProcess object nobody has spawned (or one that has exited)
NoChild == [alive |-> FALSE, killed |-> FALSE]
\* the child processes are named by the slot they occupy while they are alive
ChildSlots == 1..(MaxChildren + 1)

\* IbkrGatewayManager after construction: no process, no timer, nothing in
\* progress. Its fields keep their names; beside them
\*   children         the ChildProcess objects spawned and not yet exited
\*   leakedIntervals  health-check intervals running that no field refers to
\*   restartTimeout   "null", or the state of the timer the field refers to
\*   leakedTimeouts   restart timers pending that no field refers to
\*   starts           the start() calls in progress, counted by where they wait
\*   probes           health-check callbacks waiting for isHealthy()
\*   killWaits        the stop() calls waiting in killProcess(), in call order,
\*                    each with the process it waits for and its caller
\*   calls            the calls of start() and stop() made from outside
\*   stopReturned     a stop() called from outside has returned, and start()
\*                    has not been called from outside since that stop() was
\*   countAtStop      the restart counter when the last stop() called from
\*                    outside returned, if one has
\*   gaveUp           handleUnexpectedExit() has given up restarting, and
\*                    start() has not been called from outside since
\* The field lastHealthy only decides whether healthChange is emitted; the
\* events emitted to observers are left out.
NewGateway ==
  [status |-> "stopped", pid |-> {}, restartCount |-> 0,
   process |-> {}, children |-> [p \in ChildSlots |-> NoChild],
   healthCheckInterval |-> FALSE, leakedIntervals |-> 0,
   restartTimeout |-> "null", leakedTimeouts |-> 0,
   isShuttingDown |-> FALSE,
   starts |-> [spawning |-> 0, probing |-> 0, sleeping |-> 0],
   probes |-> 0, killWaits |-> <<>>,
   calls |-> 0, stopReturned |-> FALSE, countAtStop |-> {},
   gaveUp |-> FALSE]

\* the session manager, the repository and the service after construction
Constructed ==
  /\ credentials = NoCredentials
  /\ heartbeatInterval = FALSE
  /\ reauthenticating = FALSE
  /\ reauthResolvers = <<>>
  /\ stopped = FALSE
  /\ session = EmptySession
  /\ activeTimers = 0
  /\ startCall = [i \in 1..MaxCalls |-> IdleCall]
  /\ stopCall = [j \in 1..MaxCalls |-> IdleStop]
  /\ tick = [i \in 1..MaxCalls |-> IdleTick]
  /\ waiter = [w \in 1..MaxCalls |-> NotCalled]
  /\ currentTotpSecret = FALSE
  /\ call = NoCall
  /\ last = NoLast
  /\ held = {}
  /\ dateTouched = {}
  /\ gw = NewGateway
  /\ wire = <<>>

\* the session manager's login() calls are seen from outside (LoginFailures):
\* the service's configuration does not show
Init ==
  /\ Constructed
  /\ totpSecret = FALSE

(* ------------------------------ start() ------------------------------- *)
\* start(credentials) up to its await of login()
Start(i) ==
  /\ startCall[i].pc = "idle"
  /\ Calls < MaxCalls
  /\ \A k \in 1..(i - 1) : startCall[k].pc # "idle"
  /\ credentials' = CredentialsOf(i)
  /\ stopped' = FALSE
  /\ session' = LoginEnter(session)
  /\ startCall' = [startCall EXCEPT ![i].pc = "login"]
  /\ UNCHANGED <<heartbeatInterval, reauthenticating, reauthResolvers, activeTimers,
                 stopCall, tick, waiter>>
  /\ UNCHANGED <<engineVars, repoVars, gwVars, clientVars>>

\* login() of start() meets a one-time-code challenge and goes on
StartLoginChallenge(i) ==
  /\ startCall[i].pc = "login"
  /\ session' = LoginChallenged(session)
  /\ startCall' = [startCall EXCEPT ![i].pc = "totp"]
  /\ UNCHANGED <<credentials, heartbeatInterval, reauthenticating, reauthResolvers,
                 stopped, activeTimers, stopCall, tick, waiter>>
  /\ UNCHANGED <<engineVars, repoVars, gwVars, clientVars>>

\* login() of start() returns: startHeartbeat(), and start() resolves
StartLoginOk(i) ==
  /\ InLogin(startCall[i].pc)
  /\ session' = SetAuthenticated(session)
  /\ activeTimers' = activeTimers + 1
  /\ heartbeatInterval' = TRUE
  /\ startCall' = [startCall EXCEPT ![i] = [pc |-> "done", res |-> "ok"]]
  /\ UNCHANGED <<credentials, reauthenticating, reauthResolvers, stopped, stopCall,
                 tick, waiter>>
  /\ UNCHANGED <<engineVars, repoVars, gwVars, clientVars>>

\* variant: start() calls login() again when it throws
StartLoginFailRetry(i, f) ==
  /\ InLogin(startCall[i].pc)
  /\ f \in LoginFailures(startCall[i].pc)
  /\ session' = LoginEnter(LoginFailed(session, f))
  /\ startCall' = [startCall EXCEPT ![i].pc = "login"]
  /\ UNCHANGED <<credentials, heartbeatInterval, reauthenticating, reauthResolvers,
                 stopped, activeTimers, stopCall, tick, waiter>>
  /\ UNCHANGED <<engineVars, repoVars, gwVars, clientVars>>

\* login() of start() throws: start() rejects with the same error
StartLoginFail(i, f) ==
  /\ InLogin(startCall[i].pc)
  /\ f \in LoginFailures(startCall[i].pc)
  /\ session' = LoginFailed(session, f)
  /\ startCall' = [startCall EXCEPT ![i] = [pc |-> "done", res |-> f.code]]
  /\ UNCHANGED <<credentials, heartbeatInterval, reauthenticating, reauthResolvers,
                 stopped, activeTimers, stopCall, tick, waiter>>
  /\ UNCHANGED <<engineVars, repoVars, gwVars, clientVars>>

(* ------------------------------- stop() ------------------------------- *)
\* variant: stop() empties the waiter list without settling the callers
StopSettleForgotten == Pending
\* variant: stop() resolves the callers
StopSettleResolves == Resolved
\* stop(): what it does to each pending waiter
StopSettle == Rejected(StoppedError)

\* stop() up to its await of logout()
Stop(j) ==
  /\ stopCall[j].pc = "idle"
  /\ Calls < MaxCalls
  /\ \A k \in 1..(j - 1) : stopCall[k].pc # "idle"
  /\ stopped' = TRUE
  /\ activeTimers' = IF heartbeatInterval THEN activeTimers - 1 ELSE activeTimers
  /\ heartbeatInterval' = FALSE
  /\ waiter' = SettleAll(StopSettle)
  /\ reauthResolvers' = Cleared(reauthResolvers)
  /\ stopCall' = [stopCall EXCEPT ![j].pc = "logout"]
  /\ UNCHANGED <<credentials, reauthenticating, session, startCall, tick>>
  /\ UNCHANGED <<engineVars, repoVars, gwVars, clientVars>>

\* logout() returns: clearSession(), and stop() resolves
StopLogoutOk(j) ==
  /\ stopCall[j].pc = "logout"
  /\ session' = ClearSession
  /\ stopCall' = [stopCall EXCEPT ![j] =
                     [pc |-> "done", res |-> "returned", logout |-> "ok"]]
  /\ UNCHANGED <<credentials, heartbeatInterval, reauthenticating, reauthResolvers,
                 stopped, activeTimers, startCall, tick, waiter>>
  /\ UNCHANGED <<engineVars, repoVars, gwVars, clientVars>>

\* variant: stop() without its try/catch around logout()
StopLogoutFailRaises(j) ==
  /\ stopCall[j].pc = "logout"
  /\ stopCall' = [stopCall EXCEPT ![j] =
                     [pc |-> "done", res |-> "raised", logout |-> "failed"]]
  /\ UNCHANGED <<credentials, heartbeatInterval, reauthenticating, reauthResolvers,
                 stopped, session, activeTimers, startCall, tick, waiter>>
  /\ UNCHANGED <<engineVars, repoVars, gwVars, clientVars>>

\* the gateway's logout call fails: logout() throws before clearSession(),
\* stop() catches, logs and resolves
StopLogoutFail(j) ==
  /\ stopCall[j].pc = "logout"
  /\ stopCall' = [stopCall EXCEPT ![j] =
                     [pc |-> "done", res |-> "returned", logout |-> "failed"]]
  /\ UNCHANGED <<credentials, heartbeatInterval, reauthenticating, reauthResolvers,
                 stopped, session, activeTimers, startCall, tick, waiter>>
  /\ UNCHANGED <<engineVars, repoVars, gwVars, clientVars>>

(* --------------------------- waitForReauth() -------------------------- *)
\* variant: no status check
WaitImmediateAlwaysResolves(st) == Resolved
\* waitForReauth() when no re-authentication is in flight
WaitImmediate(st) ==
  IF st = "authenticated" THEN Resolved ELSE Rejected(StatusError(st))

\* variant: unshift instead of push
PushFront(q, w) == <<w>> \o q
\* this.reauthResolvers.push({ resolve, reject })
Push(q, w) == Append(q, w)

WaitForReauth(w) ==
  /\ waiter[w].state = "none"
  /\ Calls < MaxCalls
  /\ \A k \in 1..(w - 1) : waiter[k].state # "none"
  /\ IF ~reauthenticating
     THEN /\ waiter' = [waiter EXCEPT ![w] = WaitImmediate(session.status)]
          /\ UNCHANGED reauthResolvers
     ELSE /\ waiter' = [waiter EXCEPT ![w] = Pending]
          /\ reauthResolvers' = Push(reauthResolvers, w)
  /\ UNCHANGED <<credentials, heartbeatInterval, reauthenticating, stopped, session,
                 activeTimers, startCall, stopCall, tick>>
  /\ UNCHANGED <<engineVars, repoVars, gwVars, clientVars>>

(* ---------------------------- heartbeat tick -------------------------- *)
\* variant: the tick does not look at the flag
TickSkipsOnlyStopped == stopped
\* if (this.stopped || this.reauthenticating) return;
TickSkips == stopped \/ reauthenticating

\* a heartbeat timer fires: the callback runs up to its await of heartbeat()
Tick(i) ==
  /\ activeTimers > 0
  /\ Calls < MaxCalls
  /\ tick[i].pc = "idle"
  /\ \A k \in 1..(i - 1) : tick[k].pc # "idle"
  /\ tick' = [tick EXCEPT ![i].pc = IF TickSkips THEN "skipped" ELSE "heartbeat"]
  /\ UNCHANGED <<credentials, heartbeatInterval, reauthenticating, reauthResolvers,
                 stopped, session, activeTimers, startCall, stopCall, waiter>>
  /\ UNCHANGED <<engineVars, repoVars, gwVars, clientVars>>

\* variant: triggerReauth() does not look at the flag
ReauthGuardOnlyStopped == stopped
\* if (this.reauthenticating || this.stopped) return;
ReauthGuard == reauthenticating \/ stopped

\* variant: the credentials of the first start() are kept for good
ReauthCredentialsOfFirstStart == CredentialsOf(1)
\* await this.authService.login(this.credentials): the field is read when the
\* attempt begins
ReauthCredentials == credentials

\* triggerReauth() from its entry to its first await of login(), on session s
TriggerReauth(i, s) ==
  IF ReauthGuard \/ credentials = NoCredentials
  THEN /\ session' = s
       /\ tick' = [tick EXCEPT ![i] = DoneTick(@)]
       /\ UNCHANGED reauthenticating
  ELSE /\ reauthenticating' = TRUE
       /\ session' = LoginEnter(s)
       /\ tick' = [tick EXCEPT ![i] =
                     [pc |-> "login", attempt |-> 1, lastError |-> "", logins |-> 1,
                      fails |-> 0, loginWith |-> ReauthCredentials]]

\* heartbeat() returns to the timer callback
HeartbeatEnd(i, outcome) ==
  /\ tick[i].pc = "heartbeat"
  /\ outcome \in HeartbeatOutcomes
  /\ IF HeartbeatValid(outcome)
     THEN /\ session' = HeartbeatSession(session, outcome)
          /\ tick' = [tick EXCEPT ![i] = DoneTick(@)]
          /\ UNCHANGED reauthenticating
     ELSE TriggerReauth(i, HeartbeatSession(session, outcome))
  /\ UNCHANGED <<credentials, heartbeatInterval, reauthResolvers, stopped,
                 activeTimers, startCall, stopCall, waiter>>
  /\ UNCHANGED <<engineVars, repoVars, gwVars, clientVars>>

(* -------------------------- re-authentication ------------------------- *)
\* login() of a re-authentication attempt meets a challenge and goes on
ReauthLoginChallenge(i) ==
  /\ tick[i].pc = "login"
  /\ session' = LoginChallenged(session)
  /\ tick' = [tick EXCEPT ![i].pc = "totp"]
  /\ UNCHANGED <<credentials, heartbeatInterval, reauthenticating, reauthResolvers,
                 stopped, activeTimers, startCall, stopCall, waiter>>
  /\ UNCHANGED <<engineVars, repoVars, gwVars, clientVars>>

\* login() of a re-authentication attempt returns: resolve all waiters
ReauthLoginOk(i) ==
  /\ InLogin(tick[i].pc)
  /\ session' = SetAuthenticated(session)
  /\ reauthenticating' = FALSE
  /\ waiter' = SettleAll(Resolved)
  /\ reauthResolvers' = Cleared(reauthResolvers)
  /\ tick' = [tick EXCEPT ![i] = DoneTick(@)]
  /\ UNCHANGED <<credentials, heartbeatInterval, stopped, activeTimers, startCall,
                 stopCall>>
  /\ UNCHANGED <<engineVars, repoVars, gwVars, clientVars>>

\* after the loop: reject all waiters with the last error
ConcludeFailed(i, err, t) ==
  /\ reauthenticating' = FALSE
  /\ waiter' = SettleAll(Rejected(IF err = "" THEN ReauthFailedError ELSE err))
  /\ reauthResolvers' = Cleared(reauthResolvers)
  /\ tick' = [tick EXCEPT ![i] = DoneTick(t)]

\* variant: lastError ??= err
CatchErrorKeepsFirst(prev, err) == IF prev = "" THEN err ELSE prev
\* lastError = err instanceof Error ? err : new Error(String(err))
CatchError(prev, err) == err

\* login() of a re-authentication attempt throws
ReauthLoginFail(i, f) ==
  /\ InLogin(tick[i].pc)
  /\ f \in LoginFailures(tick[i].pc)
  /\ session' = LoginFailed(session, f)
  /\ IF tick[i].attempt < MAX_REAUTH_ATTEMPTS /\ ~stopped
     THEN /\ tick' = [tick EXCEPT ![i].pc = "backoff",
                                  ![i].lastError = CatchError(@, f.code),
                                  ![i].fails = @ + 1,
                                  ![i].loginWith = NoCredentials]
          /\ UNCHANGED <<reauthenticating, reauthResolvers, waiter>>
     ELSE ConcludeFailed(i, CatchError(tick[i].lastError, f.code),
                         [tick[i] EXCEPT !.fails = @ + 1])
  /\ UNCHANGED <<credentials, heartbeatInterval, stopped, activeTimers, startCall,
                 stopCall>>
  /\ UNCHANGED <<engineVars, repoVars, gwVars, clientVars>>

\* variant: the loop goes on to its next attempt without the stopped check
BackoffDoneIgnoresStop(i) ==
  /\ tick[i].pc = "backoff"
  /\ session' = LoginEnter(session)
  /\ tick' = [tick EXCEPT ![i].pc = "login", ![i].attempt = @ + 1,
                          ![i].logins = @ + 1,
                          ![i].loginWith = ReauthCredentials]
  /\ UNCHANGED <<reauthenticating, reauthResolvers, waiter>>
  /\ UNCHANGED <<credentials, heartbeatInterval, stopped, activeTimers, startCall,
                 stopCall>>
  /\ UNCHANGED <<engineVars, repoVars, gwVars, clientVars>>

\* the backoff timer fires: attempt++, the loop's stopped check, the next login()
BackoffDone(i) ==
  /\ tick[i].pc = "backoff"
  /\ IF stopped
     THEN /\ ConcludeFailed(i, tick[i].lastError, tick[i])
          /\ UNCHANGED session
     ELSE /\ session' = LoginEnter(session)
          /\ tick' = [tick EXCEPT ![i].pc = "login", ![i].attempt = @ + 1,
                                  ![i].logins = @ + 1,
                                  ![i].loginWith = ReauthCredentials]
          /\ UNCHANGED <<reauthenticating, reauthResolvers, waiter>>
  /\ UNCHANGED <<credentials, heartbeatInterval, stopped, activeTimers, startCall,
                 stopCall>>
  /\ UNCHANGED <<engineVars, repoVars, gwVars, clientVars>>

(* --------------------------- specification ---------------------------- *)
Next ==
  \/ \E i \in 1..MaxCalls : Start(i)
  \/ \E i \in 1..MaxCalls : StartLoginChallenge(i)
  \/ \E i \in 1..MaxCalls : StartLoginOk(i)
  \/ \E i \in 1..MaxCalls, f \in LoginFailures("login") \cup LoginFailures("totp") :
       StartLoginFail(i, f)
  \/ \E j \in 1..MaxCalls : Stop(j)
  \/ \E j \in 1..MaxCalls : StopLogoutOk(j)
  \/ \E j \in 1..MaxCalls : StopLogoutFail(j)
  \/ \E w \in 1..MaxCalls : WaitForReauth(w)
  \/ \E i \in 1..MaxCalls : Tick(i)
  \/ \E i \in 1..MaxCalls, o \in HeartbeatOutcomes : HeartbeatEnd(i, o)
  \/ \E i \in 1..MaxCalls : ReauthLoginChallenge(i)
  \/ \E i \in 1..MaxCalls : ReauthLoginOk(i)
  \/ \E i \in 1..MaxCalls, f \in LoginFailures("login") \cup LoginFailures("totp") :
       ReauthLoginFail(i, f)
  \/ \E i \in 1..MaxCalls : BackoffDone(i)

Spec == Init /\ [][Next]_vars

\* the completion of the login() call a re-authentication attempt awaits
ReauthLoginStep(i) ==
  \/ ReauthLoginChallenge(i)
  \/ ReauthLoginOk(i)
  \/ \E f \in LoginFailures("login") \cup LoginFailures("totp") : ReauthLoginFail(i, f)

\* every login() call of a re-authentication and every backoff timer
\* eventually completes
FairSpec ==
  /\ Init
  /\ [][Next]_vars
  /\ \A i \in 1..MaxCalls : WF_vars(ReauthLoginStep(i)) /\ WF_vars(BackoffDone(i))

(* ------------------------- optional values ---------------------------- *)
\* A value that may be undefined is a set: {} when undefined, {x} when x.
Get(o) == CHOOSE x \in o : TRUE
\* o ?? d
OrElse(o, d) == IF o = {} THEN d ELSE Get(o)
OptBool == {{}, {TRUE}, {FALSE}}
Opt(S) == {{}} \cup {{x} : x \in S}

(* ---------------------- gateway wire responses ------------------------ *)
\* A reply of the gateway is {} when the call failed in transport (the client
\* rejects) and {r} when it answered r.
\* GET /iserver/auth/status, the fields the service reads
AuthStatusWire == [connected : OptBool, authenticated : OptBool, competing : OptBool]
\* POST /iserver/auth/ssodh/init: challenge is undefined, empty or a hex string
SsoInitWire == [authenticated : OptBool, challenge : Opt({"", "a1b2"})]
\* POST /iserver/auth/ssodh/init with a response
TotpChallengeWire == [authenticated : OptBool]
\* POST /tickle
TickleAuthStatus == [authenticated : OptBool, competing : OptBool]
TickleWire ==
  [ssoExpires : Opt(-1..MaxTime), collission : OptBool,
   iserver : Opt([authStatus : Opt(TickleAuthStatus)])]
\* the result of the login capability: success, failure, failure that needs
\* manual intervention; {} when it threw
HeadlessResults == {"success", "failure", "manual"}

\* new Date() at the start of heartbeat(): a time after the year 2000
Nows == (YEAR_2000_MS + 1)..MaxTime

(* ------------------------- checkAuthStatus() -------------------------- *)
\* the normalised status: response.x ?? false
NormalizeStatus(r) ==
  [connected |-> OrElse(r.connected, FALSE),
   authenticated |-> OrElse(r.authenticated, FALSE),
   competing |-> OrElse(r.competing, FALSE)]

(* ----------------------------- heartbeat() ---------------------------- *)
\* response.iserver?.authStatus
IserverAuthStatus(r) == IF r.iserver = {} THEN {} ELSE Get(r.iserver).authStatus
\* response.iserver?.authStatus?.authenticated
NestedAuthenticated(r) ==
  IF IserverAuthStatus(r) = {} THEN {} ELSE Get(IserverAuthStatus(r)).authenticated
\* response.iserver?.authStatus?.competing
NestedCompeting(r) ==
  IF IserverAuthStatus(r) = {} THEN {} ELSE Get(IserverAuthStatus(r)).competing

\* variant: every value is absolute
SsoExpiresAlwaysAbsolute(r, now) ==
  IF r.ssoExpires # {} /\ Get(r.ssoExpires) > 0 THEN r.ssoExpires ELSE {}
\* let ssoExpires: Date | undefined, as the time it holds
SsoExpires(r, now) ==
  IF r.ssoExpires # {} /\ Get(r.ssoExpires) > 0
  THEN IF Get(r.ssoExpires) < YEAR_2000_MS
       THEN {now + Get(r.ssoExpires)}
       ELSE {Get(r.ssoExpires)}
  ELSE {}

\* variant: authenticated defaults to false
IsAuthenticatedDefaultFalse(r) == OrElse(NestedAuthenticated(r), FALSE)
\* const isAuthenticated = response.iserver?.authStatus?.authenticated ?? true
IsAuthenticated(r) == OrElse(NestedAuthenticated(r), TRUE)

\* const isCompeting = response.iserver?.authStatus?.competing ?? response.collission ?? false
IsCompeting(r) == OrElse(NestedCompeting(r), OrElse(r.collission, FALSE))

\* const ssoExpired = ssoExpires ? ssoExpires <= now : false
SsoExpired(e, now) == IF e # {} THEN Get(e) <= now ELSE FALSE

\* heartbeat(): the result for a tickle response r received with the clock at now
HeartbeatResult(r, now) ==
  [valid |-> IsAuthenticated(r) /\ ~SsoExpired(SsoExpires(r, now), now),
   ssoExpires |-> SsoExpires(r, now),
   competing |-> IsCompeting(r)]

\* heartbeat(): the result when the tickle call failed
HeartbeatFailedResult == [valid |-> FALSE, ssoExpires |-> {}, competing |-> FALSE]

\* heartbeat(): the result for a reply, and the outcome the session manager sees
HeartbeatOf(reply, now) ==
  IF reply = {} THEN HeartbeatFailedResult ELSE HeartbeatResult(Get(reply), now)
HeartbeatOutcome(reply, now) ==
  IF reply = {} THEN "error"
  ELSE IF HeartbeatOf(reply, now).valid THEN "valid" ELSE "invalid"

(* ------------------ authentication service: its calls ----------------- *)
\* AuthenticationError.code
AuthenticationErrorCodes ==
  {"NOT_CONNECTED", "SESSION_INIT_FAILED", "COMPETING_SESSION", "TOTP_REQUIRED",
   "TOTP_FAILED", "HEADLESS_LOGIN_FAILED", "UNKNOWN"}
\* an error of the gateway client, which is no AuthenticationError
TransportError == "Error"

\* the call c has called endpoint: "status", "loginCapability", "init",
\* "totpResponse", "tickle" or "logout"
Invoke(c, endpoint) == [c EXCEPT !.invoked = @ \cup {endpoint}]
\* the call c returns
Returned(c) ==
  [op |-> c.op, outcome |-> "returned", error |-> "", invoked |-> c.invoked,
   now |-> c.now, reply |-> {}, result |-> {}]
\* the call c throws e
Threw(c, e) ==
  [op |-> c.op, outcome |-> "threw", error |-> e, invoked |-> c.invoked,
   now |-> c.now, reply |-> {}, result |-> {}]

\* a value used as a condition: undefined is falsy
Truthy(o) == OrElse(o, FALSE)

\* isTotpChallenge(response)
IsTotpChallenge(r) ==
  ~Truthy(r.authenticated) /\ r.challenge # {} /\ Get(r.challenge) # ""

\* a call begins only when the one before has ended
Begin(op, pc, now) ==
  /\ call.op = "none"
  /\ call' = [NoCall EXCEPT !.op = op, !.pc = pc, !.now = now]
  /\ last' = NoLast

\* the steps of the service leave the manager and the outside holders alone
EngineFrame ==
  UNCHANGED <<credentials, heartbeatInterval, reauthenticating, reauthResolvers,
              stopped, activeTimers, startCall, stopCall, tick, waiter, totpSecret,
              repoVars, gwVars, clientVars>>

(* ------------------------------- login() ------------------------------ *)
\* login(credentials) up to its first probe; secret: credentials.totpSecret is given
Login(secret) ==
  /\ Begin("login", "probe", 0)
  /\ session' = LoginEnter(session)
  /\ currentTotpSecret' = (secret \/ totpSecret)
  /\ EngineFrame

\* updateSession({ status: 'authenticated', authenticatedAt }); return getSession()
LoginSucceeds(c) ==
  /\ session' = SetAuthenticated(session)
  /\ call' = NoCall
  /\ last' = Returned(c)

\* login()'s outer catch, for error e thrown with the session at s
LoginCatch(s, e) ==
  IF e \in AuthenticationErrorCodes
  THEN [session |-> s, error |-> e]
  ELSE [session |-> SetStatus(s, "disconnected"), error |-> "UNKNOWN"]

\* login() throws e with the session at s
LoginThrows(c, s, e) ==
  /\ session' = LoginCatch(s, e).session
  /\ call' = NoCall
  /\ last' = Threw(c, LoginCatch(s, e).error)

\* login() goes on to its next awaited call
LoginGoes(c, pc, initError, s) ==
  /\ session' = s
  /\ call' = [c EXCEPT !.pc = pc, !.initError = initError]
  /\ UNCHANGED last

\* variant: the first probe's answer is ignored
LoginProbeAuthenticatedNever(reply) == FALSE
\* the first probe: did it report authenticated (a failed probe is swallowed)
LoginProbeAuthenticated(reply) ==
  reply # {} /\ NormalizeStatus(Get(reply)).authenticated

\* the first status probe ends
LoginProbe(reply) ==
  /\ call.op = "login" /\ call.pc = "probe"
  /\ reply \in Opt(AuthStatusWire)
  /\ IF LoginProbeAuthenticated(reply)
     THEN LoginSucceeds(Invoke(call, "status"))
     ELSE LoginGoes(Invoke(call, "status"), "headless", "", session)
  /\ UNCHANGED currentTotpSecret
  /\ EngineFrame

\* variant: a failure of the login capability is always the generic one
LoginHeadlessGenericFailure(result) ==
  /\ call.op = "login" /\ call.pc = "headless"
  /\ result \in Opt(HeadlessResults)
  /\ LET c == Invoke(call, "loginCapability") IN
       CASE result = {} -> LoginThrows(c, session, TransportError)
         [] result = {"success"} -> LoginGoes(c, "verify", "", session)
         [] OTHER ->
              LoginThrows(c, SetStatus(session, "disconnected"), "HEADLESS_LOGIN_FAILED")
  /\ UNCHANGED currentTotpSecret
  /\ EngineFrame

\* the login capability ends
LoginHeadless(result) ==
  /\ call.op = "login" /\ call.pc = "headless"
  /\ result \in Opt(HeadlessResults)
  /\ LET c == Invoke(call, "loginCapability") IN
       CASE result = {} -> LoginThrows(c, session, TransportError)
         [] result = {"success"} -> LoginGoes(c, "verify", "", session)
         [] result = {"manual"} ->
              LoginThrows(c, SetStatus(session, "disconnected"), "TOTP_REQUIRED")
         [] OTHER ->
              LoginThrows(c, SetStatus(session, "disconnected"), "HEADLESS_LOGIN_FAILED")
  /\ UNCHANGED currentTotpSecret
  /\ EngineFrame

\* the probe after the settle delay ends, or its one retry 3 s later
LoginVerify(reply) ==
  /\ call.op = "login" /\ call.pc \in {"verify", "verify2"}
  /\ reply \in Opt(AuthStatusWire)
  /\ LET c == Invoke(call, "status") IN
       IF reply = {}
       THEN IF call.pc = "verify"
            THEN LoginGoes(c, "verify2", "", session)
            ELSE LoginThrows(c, session, TransportError)
       ELSE IF NormalizeStatus(Get(reply)).authenticated
            THEN LoginSucceeds(c)
            ELSE IF NormalizeStatus(Get(reply)).competing
                 THEN LoginThrows(c, session, "COMPETING_SESSION")
                 ELSE LoginGoes(c, "init", "", session)
  /\ UNCHANGED currentTotpSecret
  /\ EngineFrame

\* the session-init call ends; a challenge runs handleTotpChallenge() up to
\* its submission
LoginInit(reply) ==
  /\ call.op = "login" /\ call.pc = "init"
  /\ reply \in Opt(SsoInitWire)
  /\ LET c == Invoke(call, "init") IN
       CASE reply = {} -> LoginGoes(c, "retry", TransportError, session)
         [] reply # {} /\ Truthy(Get(reply).authenticated) -> LoginSucceeds(c)
         [] reply # {} /\ IsTotpChallenge(Get(reply)) ->
              IF currentTotpSecret
              THEN LoginGoes(c, "totp", "", LoginChallenged(session))
              ELSE LoginGoes(c, "retry", "TOTP_REQUIRED", LoginChallenged(session))
         [] OTHER -> LoginGoes(c, "retry", "SESSION_INIT_FAILED", session)
  /\ UNCHANGED currentTotpSecret
  /\ EngineFrame

\* submitTotpResponse() of the challenge ends
LoginTotp(reply) ==
  /\ call.op = "login" /\ call.pc = "totp"
  /\ reply \in Opt(TotpChallengeWire)
  /\ LET c == Invoke(call, "totpResponse") IN
       CASE reply = {} -> LoginGoes(c, "retry", TransportError, session)
         [] reply # {} /\ Truthy(Get(reply).authenticated) -> LoginSucceeds(c)
         [] OTHER -> LoginGoes(c, "retry", "TOTP_FAILED", session)
  /\ UNCHANGED currentTotpSecret
  /\ EngineFrame

\* the probe of the inner catch ends
LoginRetry(reply) ==
  /\ call.op = "login" /\ call.pc = "retry"
  /\ reply \in Opt(AuthStatusWire)
  /\ LET c == Invoke(call, "status") IN
       IF reply = {}
       THEN LoginThrows(c, session, TransportError)
       ELSE IF NormalizeStatus(Get(reply)).authenticated
            THEN LoginSucceeds(c)
            ELSE LoginThrows(c, session, call.initError)
  /\ UNCHANGED currentTotpSecret
  /\ EngineFrame

(* ---------------------------- submitTOTP() ---------------------------- *)
\* the call ends at once: it returns, or throws e
EndsAtOnce(op, e) ==
  /\ call.op = "none"
  /\ UNCHANGED call
  /\ last' = IF e = "" THEN Returned([NoCall EXCEPT !.op = op])
             ELSE Threw([NoCall EXCEPT !.op = op], e)

\* the call in progress returns with the session at s
Returns(c, s) ==
  /\ session' = s
  /\ call' = NoCall
  /\ last' = Returned(c)

\* the call in progress throws e, as it is
Throws(c, e) ==
  /\ UNCHANGED session
  /\ call' = NoCall
  /\ last' = Threw(c, e)

\* submitTOTP(code) up to its session-init call
SubmitTOTP ==
  /\ IF session.status # "awaiting_totp"
     THEN EndsAtOnce("submitTOTP", "TOTP_FAILED")
     ELSE Begin("submitTOTP", "init", 0)
  /\ UNCHANGED <<session, currentTotpSecret>>
  /\ EngineFrame

\* the session-init call of submitTOTP() ends
SubmitInit(reply) ==
  /\ call.op = "submitTOTP" /\ call.pc = "init"
  /\ reply \in Opt(SsoInitWire)
  /\ LET c == Invoke(call, "init") IN
       CASE reply = {} -> Throws(c, TransportError)
         [] reply # {} /\ IsTotpChallenge(Get(reply)) ->
              /\ call' = [c EXCEPT !.pc = "totp"]
              /\ UNCHANGED <<session, last>>
         [] reply # {} /\ ~IsTotpChallenge(Get(reply))
              /\ Truthy(Get(reply).authenticated) ->
              Returns(c, SetAuthenticated(session))
         [] OTHER -> Throws(c, "TOTP_FAILED")
  /\ UNCHANGED currentTotpSecret
  /\ EngineFrame

\* submitTotpResponse() of submitTOTP() ends
SubmitTotp(reply) ==
  /\ call.op = "submitTOTP" /\ call.pc = "totp"
  /\ reply \in Opt(TotpChallengeWire)
  /\ LET c == Invoke(call, "totpResponse") IN
       CASE reply = {} -> Throws(c, TransportError)
         [] reply # {} /\ Truthy(Get(reply).authenticated) ->
              Returns(c, SetAuthenticated(session))
         [] OTHER -> Throws(c, "TOTP_FAILED")
  /\ UNCHANGED currentTotpSecret
  /\ EngineFrame

(* -------------------------- checkAuthStatus() ------------------------- *)
CheckAuthStatus ==
  /\ Begin("checkAuthStatus", "status", 0)
  /\ UNCHANGED <<session, currentTotpSecret>>
  /\ EngineFrame

\* the probe ends: the normalised status is returned, a failure is thrown on
CheckAuthStatusEnd(reply) ==
  /\ call.op = "checkAuthStatus"
  /\ reply \in Opt(AuthStatusWire)
  /\ LET c == Invoke(call, "status") IN
       IF reply = {} THEN Throws(c, TransportError) ELSE Returns(c, session)
  /\ UNCHANGED currentTotpSecret
  /\ EngineFrame

(* ----------------------------- heartbeat() ---------------------------- *)
\* heartbeat() up to its tickle call: const now = new Date()
Heartbeat(now) ==
  /\ Begin("heartbeat", "tickle", now)
  /\ UNCHANGED <<session, currentTotpSecret>>
  /\ EngineFrame

\* the tickle call ends
HeartbeatReturn(reply) ==
  /\ call.op = "heartbeat"
  /\ reply \in Opt(TickleWire)
  /\ session' = HeartbeatSession(session, HeartbeatOutcome(reply, call.now))
  /\ call' = NoCall
  /\ last' = [Returned(Invoke(call, "tickle")) EXCEPT
                !.reply = reply, !.result = {HeartbeatOf(reply, call.now)}]
  /\ UNCHANGED currentTotpSecret
  /\ EngineFrame

(* ------------------------------ logout() ------------------------------ *)
Logout ==
  /\ Begin("logout", "logout", 0)
  /\ UNCHANGED <<session, currentTotpSecret>>
  /\ EngineFrame

\* the logout call ends: clearSession() follows only if it did not throw
LogoutEnd(ok) ==
  /\ call.op = "logout"
  /\ IF ok
     THEN Returns(Invoke(call, "logout"), ClearSession)
     ELSE Throws(Invoke(call, "logout"), TransportError)
  /\ UNCHANGED currentTotpSecret
  /\ EngineFrame

(* ------------- specification of the authentication service ------------ *)
\* The service after construction, with or without a configured one-time-code
\* secret, called by one caller, one call at a time.
AuthInit ==
  /\ Constructed
  /\ totpSecret \in BOOLEAN

AuthNext ==
  \/ \E secret \in BOOLEAN : Login(secret)
  \/ \E reply \in Opt(AuthStatusWire) : LoginProbe(reply)
  \/ \E result \in Opt(HeadlessResults) : LoginHeadless(result)
  \/ \E reply \in Opt(AuthStatusWire) : LoginVerify(reply)
  \/ \E reply \in Opt(SsoInitWire) : LoginInit(reply)
  \/ \E reply \in Opt(TotpChallengeWire) : LoginTotp(reply)
  \/ \E reply \in Opt(AuthStatusWire) : LoginRetry(reply)
  \/ SubmitTOTP
  \/ \E reply \in Opt(SsoInitWire) : SubmitInit(reply)
  \/ \E reply \in Opt(TotpChallengeWire) : SubmitTotp(reply)
  \/ CheckAuthStatus
  \/ \E reply \in Opt(AuthStatusWire) : CheckAuthStatusEnd(reply)
  \/ \E now \in Nows : Heartbeat(now)
  \/ \E reply \in Opt(TickleWire) : HeartbeatReturn(reply)
  \/ Logout
  \/ \E ok \in BOOLEAN : LogoutEnd(ok)

AuthSpec == AuthInit /\ [][AuthNext]_vars

(* -------------------- session repository and holders ------------------ *)
\* The session object getSession() returned last, as an outside holder has it
\* ({} before the first call).  value: the object's fields; stored: the
\* object is the very object the repository keeps in this.session; shares:
\* the Date fields that refer to the same Date object as the stored session's
\* field; assigned: the holder has assigned one of its fields.
DateFields == {"authenticatedAt", "lastHeartbeat"}

\* variant: return this.session
GetSessionReturnsStored ==
  [value |-> session, stored |-> TRUE,
   shares |-> {f \in DateFields : session[f]}, assigned |-> FALSE]
\* getSession(): return { ...this.session }, a new object with the same
\* field values, the Date objects among them
GetSession ==
  [value |-> session, stored |-> FALSE,
   shares |-> {f \in DateFields : session[f]}, assigned |-> FALSE]

\* Partial<Session>: the status if given, and which Date fields are given
SessionUpdates ==
  [status : Opt(SessionStatus), authenticatedAt : BOOLEAN, lastHeartbeat : BOOLEAN]
\* the Date fields an update gives
Given(u) == {f \in DateFields : u[f]}
\* updateSession(update): this.session = { ...this.session, ...update }
UpdateSession(s, u) ==
  [status |-> OrElse(u.status, s.status),
   authenticatedAt |-> s.authenticatedAt \/ u.authenticatedAt,
   lastHeartbeat |-> s.lastHeartbeat \/ u.lastHeartbeat]

\* this.session is assigned a new object: an object handed out before is not
\* the stored object, and shares the Date objects that were carried over
Replaced(carried) ==
  {[h EXCEPT !.stored = FALSE, !.shares = @ \cap carried] : h \in held}

\* the steps on the repository leave the manager and the service alone
RepoFrame ==
  UNCHANGED <<credentials, heartbeatInterval, reauthenticating, reauthResolvers,
              stopped, activeTimers, startCall, stopCall, tick, waiter, engineVars,
              gwVars, clientVars>>

\* a holder calls getSession() and keeps what it returns
RepoGetSession ==
  /\ held' = {GetSession}
  /\ UNCHANGED <<session, dateTouched>>
  /\ RepoFrame

\* updateSession(u)
RepoUpdateSession(u) ==
  /\ u \in SessionUpdates
  /\ session' = UpdateSession(session, u)
  /\ held' = Replaced(DateFields \ Given(u))
  /\ dateTouched' = dateTouched \ Given(u)
  /\ RepoFrame

\* clearSession()
RepoClearSession ==
  /\ session' = ClearSession
  /\ held' = Replaced({})
  /\ dateTouched' = {}
  /\ RepoFrame

\* a write to field f of the held object: it is a write to the stored
\* session if that is the same object
HolderWrites(f, v) ==
  /\ held # {}
  /\ held' = {[Get(held) EXCEPT !.value[f] = v, !.shares = @ \ {f},
                                !.assigned = TRUE]}
  /\ IF Get(held).stored
     THEN /\ session' = [session EXCEPT ![f] = v]
          /\ dateTouched' = dateTouched \ {f}
     ELSE UNCHANGED <<session, dateTouched>>
  /\ RepoFrame

\* a holder assigns the status of a session object it was given
HolderAssignStatus(st) ==
  /\ st \in SessionStatus
  /\ HolderWrites("status", st)

\* a holder assigns a Date field of a session object it was given: a Date of
\* its own, or undefined
HolderAssignDate(f, present) ==
  /\ f \in DateFields
  /\ present \in BOOLEAN
  /\ HolderWrites(f, present)

\* a holder changes in place (setTime) the Date object a field of its session
\* object refers to: no field is assigned, and the stored session's Date is
\* changed if it is the same object
HolderMutatesDate(f) ==
  /\ held # {}
  /\ f \in DateFields
  /\ Get(held).value[f]
  /\ dateTouched' = IF f \in Get(held).shares THEN dateTouched \cup {f} ELSE dateTouched
  /\ UNCHANGED <<session, held>>
  /\ RepoFrame

RepoNext ==
  \/ RepoGetSession
  \/ \E u \in SessionUpdates : RepoUpdateSession(u)
  \/ RepoClearSession
  \/ \E st \in SessionStatus : HolderAssignStatus(st)
  \/ \E f \in DateFields, present \in BOOLEAN : HolderAssignDate(f, present)
  \/ \E f \in DateFields : HolderMutatesDate(f)

\* the repository after construction, used by any callers
RepoSpec == Init /\ [][RepoNext]_vars

(* --------------------- gateway process supervisor --------------------- *)
GatewayStatus == {"stopped", "starting", "running", "unhealthy", "stopping"}

\* setStatus(status)
GatewaySetStatus(g, status) == [g EXCEPT !.status = status]

\* the child processes that have not exited
AliveChildren(g) == {p \in ChildSlots : g.children[p].alive}

\* the health-check intervals that are running
Intervals(g) == g.leakedIntervals + (IF g.healthCheckInterval THEN 1 ELSE 0)

\* the restart timers that are pending
RestartTimers(g) ==
  g.leakedTimeouts + (IF g.restartTimeout = "pending" THEN 1 ELSE 0)

\* startHealthChecks(): the field takes a new interval; an interval it held
\* before is not cleared and keeps running
StartHealthChecks(g) ==
  [g EXCEPT !.healthCheckInterval = TRUE,
            !.leakedIntervals = @ + (IF g.healthCheckInterval THEN 1 ELSE 0)]

\* stopHealthChecks(): clears the interval the field holds
StopHealthChecks(g) == [g EXCEPT !.healthCheckInterval = FALSE]

\* clearRestartTimeout(): clears the timer the field holds (to no effect if
\* that timer has fired already)
ClearRestartTimeout(g) == [g EXCEPT !.restartTimeout = "null"]

\* variant: gives up one failure later
RestartsExhaustedAbove(g) == g.restartCount > MAX_RESTART_ATTEMPTS
\* if (this.gateway.process.restartCount >= MAX_RESTART_ATTEMPTS)
RestartsExhausted(g) == g.restartCount >= MAX_RESTART_ATTEMPTS

\* handleUnexpectedExit(): unhealthy, then either stopped for good or a
\* restart timer; a timer the field held before is not cleared
HandleUnexpectedExit(g) ==
  LET u == GatewaySetStatus(g, "unhealthy")
  IN  IF RestartsExhausted(u)
      THEN [GatewaySetStatus(u, "stopped") EXCEPT !.gaveUp = TRUE]
      ELSE [u EXCEPT !.restartTimeout = "pending",
                     !.leakedTimeouts =
                        @ + (IF g.restartTimeout = "pending" THEN 1 ELSE 0)]

\* ChildProcess.kill(): the signal is sent, the exit comes later
Kill(g, p) == [g EXCEPT !.children[p].killed = TRUE]

\* spawnGatewayProcess() up to its 500 ms timer: a new child, held by the
\* field, its pid recorded
SpawnGatewayProcess(g) ==
  LET p == CHOOSE q \in ChildSlots \ AliveChildren(g) :
             \A r \in ChildSlots \ AliveChildren(g) : q <= r
  IN  [g EXCEPT !.process = {p}, !.pid = {p},
                !.children[p] = [alive |-> TRUE, killed |-> FALSE],
                !.starts.spawning = @ + 1]

\* start() up to its first suspension
StartEnter(g) ==
  IF g.status \in {"running", "starting"}
  THEN g
  ELSE SpawnGatewayProcess(
         [GatewaySetStatus(g, "starting") EXCEPT !.isShuttingDown = FALSE])

\* variant: the catch block leaves the process alone
StartCatchKeepsProcess(g) == GatewaySetStatus(g, "stopped")
\* the catch block of start(): stopped, the process the field holds is sent
\* SIGTERM and let go of; the recorded pid stays. The call then fails
StartCatch(g) ==
  LET s == GatewaySetStatus(g, "stopped")
  IN  IF s.process = {} THEN s
      ELSE [Kill(s, Get(s.process)) EXCEPT !.process = {}]

\* waitForGatewayReady(), the head of an iteration before the timeout: the
\* process the field holds must be there and not signalled, then the probe
\* is sent
WaitForGatewayReady(g) ==
  IF g.process = {} \/ g.children[Get(g.process)].killed
  THEN StartCatch(g)
  ELSE [g EXCEPT !.starts.probing = @ + 1]

\* a variant of the success path of start() that resets the restart counter
StartReadyResets(g) ==
  StartHealthChecks(GatewaySetStatus([g EXCEPT !.restartCount = 0], "running"))

\* start() after waitForGatewayReady() returned
StartReady(g) == StartHealthChecks(GatewaySetStatus(g, "running"))

\* restart() after its stop() returned, up to the first suspension of start()
RestartResume(g) == StartEnter([g EXCEPT !.restartCount = @ + 1])

RECURSIVE RestartsResume(_, _)
\* n restart() calls resume one after the other
RestartsResume(g, n) ==
  IF n = 0 THEN g ELSE RestartsResume(RestartResume(g), n - 1)

\* stop() has returned to a caller from outside
StopReturned(g) ==
  [g EXCEPT !.stopReturned = TRUE, !.countAtStop = {g.restartCount}]

\* what follows the return of stop(): its caller from outside sees it, a
\* restart() goes on
AfterStop(g, by) == IF by = "restart" THEN RestartResume(g) ELSE StopReturned(g)

\* the stop() calls ws, waiting in killProcess(), are resolved in one turn of
\* the event loop: each sets the status, then the callers resume in order
ResolveKillWaits(g, ws) ==
  IF ws = <<>> THEN g
  ELSE LET s == GatewaySetStatus(g, "stopped")
           u == IF \E i \in 1..Len(ws) : ws[i].by = "user"
                THEN StopReturned(s) ELSE s
       IN  RestartsResume(u, Cardinality({i \in 1..Len(ws) : ws[i].by = "restart"}))

\* killProcess(): SIGTERM to the process the field holds, then wait for its
\* exit or for 10 s
KillProcess(g, by) ==
  [Kill(g, Get(g.process)) EXCEPT
     !.killWaits = Append(@, [proc |-> Get(g.process), by |-> by])]

\* stopHealthChecks(); clearRestartTimeout();
StopCancels(g) == ClearRestartTimeout(StopHealthChecks(g))

\* stop() up to its first suspension, or to its return if there is none
StopEnter(g, by) ==
  IF g.status = "stopped" THEN AfterStop(g, by)
  ELSE LET s == StopCancels(
                  [GatewaySetStatus(g, "stopping") EXCEPT !.isShuttingDown = TRUE])
       IN  IF s.process = {}
           THEN AfterStop(GatewaySetStatus(s, "stopped"), by)
           ELSE KillProcess(s, by)

\* checkGatewayEndpoint() can resolve true only while a gateway process is
\* alive to answer on the port
Answers(g) == AliveChildren(g) # {}

\* The waits of a start() (500 ms after the spawn, 2 s between two probes)
\* and a probe (the request's timeout, 5 s) are over within the 5 s of the
\* restart delay and the 10 s of killProcess(): those that were out when such
\* a timer was set are over when it fires. The two timers are explored
\* firing with none of the short waits out
NoShortWaitOut(g) ==
  /\ g.probes = 0
  /\ g.starts.spawning = 0 /\ g.starts.probing = 0 /\ g.starts.sleeping = 0

\* the steps of the supervisor leave the session manager, the service and the
\* repository alone
GatewayFrame ==
  UNCHANGED <<credentials, heartbeatInterval, reauthenticating, reauthResolvers,
              stopped, session, activeTimers, startCall, stopCall, tick, waiter,
              engineVars, repoVars, clientVars>>

\* the start() calls in progress
StartsInProgress(g) == g.starts.spawning + g.starts.probing + g.starts.sleeping

\* the supervisor becomes n, within what is explored
Becomes(n) ==
  /\ Cardinality(AliveChildren(n)) <= MaxChildren
  /\ StartsInProgress(n) <= MaxChildren
  /\ n.leakedIntervals <= MaxLeaked
  /\ n.leakedTimeouts <= MaxLeaked
  /\ gw' = n
  /\ GatewayFrame

\* a call from outside
FromOutside(g) == [g EXCEPT !.calls = @ + 1]

RECURSIVE Overtaken(_)
\* the waiting stop() calls ws once start() is called from outside: those
\* called from outside are no longer the last call from outside
Overtaken(ws) ==
  IF ws = <<>> THEN <<>>
  ELSE <<IF Head(ws).by = "user" THEN [Head(ws) EXCEPT !.by = "overtaken"]
         ELSE Head(ws)>> \o Overtaken(Tail(ws))

\* start() is called from outside; a stop() from outside that is still
\* waiting in killProcess() has been overtaken by it
GatewayStart ==
  /\ gw.calls < MaxGatewayCalls
  /\ Becomes(StartEnter(
       [FromOutside(gw) EXCEPT
          !.stopReturned = FALSE,
          !.gaveUp = FALSE,
          !.killWaits = Overtaken(@)]))

\* stop() is called from outside
GatewayStop ==
  /\ gw.calls < MaxGatewayCalls
  /\ Becomes(StopEnter(FromOutside(gw), "user"))

\* the 500 ms timer of spawnGatewayProcess() fires for a start() in progress:
\* it fails on a startup error on stderr, goes on to waitForGatewayReady() if
\* the process is there and not signalled, and fails otherwise
SpawnTimer(startupError) ==
  /\ gw.starts.spawning > 0
  /\ LET g == [gw EXCEPT !.starts.spawning = @ - 1]
     IN  Becomes(IF startupError THEN StartCatch(g) ELSE WaitForGatewayReady(g))

\* the readiness probe of a start() in progress is answered
ProbeReturns(ok) ==
  /\ gw.starts.probing > 0
  /\ ok => Answers(gw)
  /\ LET g == [gw EXCEPT !.starts.probing = @ - 1]
     IN  Becomes(IF ok THEN StartReady(g)
                 ELSE [g EXCEPT !.starts.sleeping = @ + 1])

\* the 2 s poll timer of a start() in progress fires, before or after the 60 s
\* of the startup timeout
PollTimer(timedOut) ==
  /\ gw.starts.sleeping > 0
  /\ LET g == [gw EXCEPT !.starts.sleeping = @ - 1]
     IN  Becomes(IF timedOut THEN StartCatch(g) ELSE WaitForGatewayReady(g))

\* the child process p exits: the exit handler of spawnGatewayProcess(), then
\* the exit handlers of the killProcess() calls waiting for it
ChildExit(p) ==
  /\ gw.children[p].alive
  /\ LET e == [gw EXCEPT !.children[p] = NoChild, !.process = {}, !.pid = {}]
         h == IF ~e.isShuttingDown /\ e.status = "running"
              THEN HandleUnexpectedExit(e) ELSE e
         ws == SelectSeq(h.killWaits, LAMBDA w : w.proc = p)
         g == [h EXCEPT !.killWaits = SelectSeq(@, LAMBDA w : w.proc # p)]
     IN  Becomes(ResolveKillWaits(g, ws))

\* the 10 s timer of the k-th waiting killProcess() fires: SIGKILL to the
\* process the field holds, if any, and the call resolves
KillTimeout(k) ==
  /\ k \in 1..Len(gw.killWaits)
  /\ NoShortWaitOut(gw)
  /\ LET f == IF gw.process = {} THEN gw ELSE Kill(gw, Get(gw.process))
         g == [f EXCEPT !.killWaits =
                 SubSeq(@, 1, k - 1) \o SubSeq(@, k + 1, Len(@))]
     IN  Becomes(ResolveKillWaits(g, <<gw.killWaits[k]>>))

\* a health-check interval fires while the status is running (it returns at
\* once otherwise); the 5 s of a probe are over before the 30 s of its
\* interval, so an interval has one probe out at most
HealthTick ==
  /\ gw.probes < Intervals(gw)
  /\ gw.status = "running"
  /\ Becomes([gw EXCEPT !.probes = @ + 1])

\* the probe of a health-check callback is answered
HealthReturns(healthy) ==
  /\ gw.probes > 0
  /\ healthy => Answers(gw)
  /\ LET g == [gw EXCEPT !.probes = @ - 1]
     IN  Becomes(IF ~healthy /\ ~g.isShuttingDown
                 THEN HandleUnexpectedExit(GatewaySetStatus(g, "unhealthy"))
                 ELSE g)

\* a restart timer fires, the one the field holds or a leaked one: restart()
\* up to its first suspension. The restart timers all have the same delay and
\* fire in the order they were set, the one the field holds last
RestartFires(leaked) ==
  /\ IF leaked THEN gw.leakedTimeouts > 0
      ELSE gw.restartTimeout = "pending" /\ gw.leakedTimeouts = 0
  /\ NoShortWaitOut(gw)
  /\ LET g == IF leaked THEN [gw EXCEPT !.leakedTimeouts = @ - 1]
              ELSE [gw EXCEPT !.restartTimeout = "fired"]
     IN  Becomes(StopEnter(g, "restart"))

(* ------------------- specification of the supervisor ------------------ *)
GatewayNext ==
  \/ GatewayStart
  \/ GatewayStop
  \/ \E startupError \in BOOLEAN : SpawnTimer(startupError)
  \/ \E ok \in BOOLEAN : ProbeReturns(ok)
  \/ \E timedOut \in BOOLEAN : PollTimer(timedOut)
  \/ \E p \in ChildSlots : ChildExit(p)
  \/ \E k \in 1..MaxGatewayCalls + MAX_RESTART_ATTEMPTS : KillTimeout(k)
  \/ HealthTick
  \/ \E healthy \in BOOLEAN : HealthReturns(healthy)
  \/ \E leaked \in BOOLEAN : RestartFires(leaked)

GatewaySpec == Init /\ [][GatewayNext]_vars

\* The supervisor under the event loop: a timer that is set fires (the 500 ms
\* of the spawn, the 2 s of a poll, the 10 s of killProcess(), the 5 s of a
\* restart, the 30 s of the health checks), and a probe is answered or times
\* out after 5 s. A start() cannot poll for ever: one of its polls finds the
\* 60 s of the startup timeout over. Nothing makes a child process exit, and
\* nothing makes anybody call start() or stop()
FairGatewaySpec ==
  /\ GatewaySpec
  /\ WF_vars(\E startupError \in BOOLEAN : SpawnTimer(startupError))
  /\ WF_vars(\E ok \in BOOLEAN : ProbeReturns(ok))
  /\ WF_vars(\E timedOut \in BOOLEAN : PollTimer(timedOut))
  /\ SF_vars(PollTimer(TRUE))
  /\ WF_vars(\E k \in 1..MaxGatewayCalls + MAX_RESTART_ATTEMPTS : KillTimeout(k))
  /\ WF_vars(HealthTick)
  /\ WF_vars(\E healthy \in BOOLEAN : HealthReturns(healthy))
  /\ WF_vars(\E leaked \in BOOLEAN : RestartFires(leaked))

(* --------------------------- gateway client --------------------------- *)
\* get(), post() and delete() of GatewayClient
Methods == {"GET", "POST", "DELETE"}

\* request(method, path, body): the request is built, written and ended in
\* the call itself; nothing is awaited before it is on its way. It is noted
\* on the wire with the state of the session manager's flag when it left
Request(method) ==
  Append(wire, [method |-> method, reauthenticating |-> reauthenticating])

\* a repository of the API calls get(), post() or delete()
ClientRequest(method) ==
  /\ Len(wire) < MaxRequests
  /\ wire' = Request(method)
  /\ UNCHANGED <<credentials, heartbeatInterval, reauthenticating,
                 reauthResolvers, stopped, session, activeTimers, startCall,
                 stopCall, tick, waiter, engineVars, repoVars, gwVars>>

\* the session manager, and the API's requests at any moment of its life
ClientNext ==
  \/ Next
  \/ \E method \in Methods : ClientRequest(method)

ClientSpec == Init /\ [][ClientNext]_vars

(* ------------------------------ claims -------------------------------- *)
Ticks == 1..MaxCalls
Waiters == 1..MaxCalls
LoginCodes == {f.code : f \in LoginFailures("login") \cup LoginFailures("totp")}

\* the instrumented counter: re-authentication sequences in flight
ReauthsInFlight == Cardinality({i \in Ticks : InReauth(tick[i].pc)})

\* C1: at most one re-authentication sequence is in flight at any time.
C1_AtMostOneReauth == ReauthsInFlight <= 1

\* C1 witness: a re-authentication is in flight while another timer callback,
\* which passed the tick's check before it began, still awaits its heartbeat.
C1_Witness ==
  /\ ReauthsInFlight = 1
  /\ \E k \in Ticks : tick[k].pc = "heartbeat"

\* C2: a stop() called while a re-authentication is in flight rejects every
\* waiter pending at that moment with 'Session manager stopped'.
C2_StopRejectsWaiters ==
  [][\A j \in DOMAIN stopCall :
       (stopCall[j].pc = "idle" /\ stopCall'[j].pc # "idle" /\ reauthenticating)
         => \A w \in Waiters :
              waiter[w].state = "pending"
                => /\ waiter'[w].state = "rejected"
                   /\ waiter'[w].error = "Session manager stopped"]_vars

\* C2 witness: stop() has been called, the re-authentication it interrupted is
\* still in flight, and a waiter that was suspended is rejected as stopped.
C2_Witness ==
  /\ ReauthsInFlight = 1
  /\ \E j \in DOMAIN stopCall : stopCall[j].pc # "idle"
  /\ \E w \in Waiters :
       /\ waiter[w].blocked
       /\ waiter[w].state = "rejected"
       /\ waiter[w].error = "Session manager stopped"

\* the waiter list holds exactly the pending callers, in the order they called
\* (callers are numbered in call order)
ListInCallOrder ==
  /\ Range(reauthResolvers) = {w \in Waiters : waiter[w].state = "pending"}
  /\ \A a, b \in DOMAIN reauthResolvers : a < b => reauthResolvers[a] < reauthResolvers[b]

\* C3: when a re-authentication succeeds, the flag is cleared and every
\* blocked caller is resolved with no value; the loop that resolves them walks
\* the waiter list, which is in call order.
C3_SuccessResolvesInOrder ==
  [][\A i \in Ticks :
       ReauthLoginOk(i)
         => /\ reauthenticating' = FALSE
            /\ ListInCallOrder
            /\ \A w \in Waiters :
                 waiter[w].state = "pending"
                   => waiter'[w].state = "resolved" /\ waiter'[w].error = ""]_vars

\* C3 witness: two callers were suspended and both have been resolved.
C3_Witness ==
  /\ ~reauthenticating
  /\ \E a, b \in Waiters :
       /\ a # b
       /\ waiter[a].blocked /\ waiter[a].state = "resolved"
       /\ waiter[b].blocked /\ waiter[b].state = "resolved"

\* C4: when the third login() call of a re-authentication fails, the flag is
\* cleared and every blocked caller is rejected with the error that call threw.
C4_ExhaustedRejectsWithLastError ==
  [][\A i \in Ticks, f \in [code : LoginCodes, clears : BOOLEAN] :
       (ReauthLoginFail(i, f) /\ tick[i].logins = 3)
         => /\ reauthenticating' = FALSE
            /\ tick'[i].pc = "done"
            /\ \A w \in Waiters :
                 waiter[w].state = "pending"
                   => waiter'[w].state = "rejected" /\ waiter'[w].error = f.code]_vars

\* C4 witness: a re-authentication made three login() calls, all failed, and a
\* suspended caller is rejected with a login error.
C4_Witness ==
  /\ \E i \in Ticks : tick[i].pc = "done" /\ tick[i].logins = 3 /\ tick[i].fails = 3
  /\ \E w \in Waiters :
       waiter[w].blocked /\ waiter[w].state = "rejected" /\ waiter[w].error \in LoginCodes

\* C5: waitForReauth() called while no re-authentication is in flight settles
\* in the call: resolved if the status is authenticated, otherwise rejected
\* with an error naming the status; it starts no login and no re-authentication.
C5_ImmediateSettle ==
  [][\A w \in Waiters :
       (waiter[w].state = "none" /\ waiter'[w].state # "none" /\ ~reauthenticating)
         => /\ ~waiter'[w].blocked
            /\ session.status = "authenticated"
                 => waiter'[w].state = "resolved"
            /\ session.status # "authenticated"
                 => /\ waiter'[w].state = "rejected"
                    /\ waiter'[w].error = StatusError(session.status)
            /\ session.status = "expired"
                 => waiter'[w].error = "Session not authenticated: expired"
            /\ UNCHANGED <<reauthenticating, reauthResolvers, session, tick,
                           startCall>>]_vars

\* C5 witness: a call made with the session expired and no re-authentication
\* in flight was rejected without being suspended.
C5_Witness ==
  \E w \in Waiters :
    /\ ~waiter[w].blocked
    /\ waiter[w].state = "rejected"
    /\ waiter[w].error = "Session not authenticated: expired"

\* C6: a re-authentication makes at most 3 login() calls, one per attempt and
\* none after a success; a caller it holds is resolved only in the step in
\* which a login() call of the sequence succeeds (with two failures before,
\* that is the third call).
C6_LoginCallsAndResolution ==
  [][/\ \A i \in Ticks :
          /\ tick'[i].logins <= 3
          /\ ReauthLoginOk(i)
               => /\ tick[i].logins = tick[i].fails + 1
                  /\ tick'[i] = [tick[i] EXCEPT !.pc = "done", !.attempt = 0,
                                                 !.lastError = "",
                                                 !.loginWith = NoCredentials]
                  /\ \A w \in Waiters :
                       waiter[w].state = "pending" => waiter'[w].state = "resolved"
          /\ (\E f \in [code : LoginCodes, clears : BOOLEAN] : ReauthLoginFail(i, f))
               /\ tick[i].logins < 3 /\ ~stopped
               => tick'[i].pc = "backoff"
     /\ \A w \in Waiters :
          (waiter[w].state = "pending" /\ waiter'[w].state = "resolved")
            => \E i \in Ticks : ReauthLoginOk(i)]_vars

\* C6 witness: a re-authentication failed twice, succeeded on its third
\* login() call, and a suspended caller is resolved.
C6_Witness ==
  /\ \E i \in Ticks : tick[i].pc = "done" /\ tick[i].logins = 3 /\ tick[i].fails = 2
  /\ \E w \in Waiters : waiter[w].blocked /\ waiter[w].state = "resolved"

\* C7: every suspended waitForReauth() caller is eventually resolved or
\* rejected, provided login() calls and backoff timers complete.
C7_NoWaiterHangs ==
  \A w \in Waiters :
    (waiter[w].state = "pending") ~> (waiter[w].state \in {"resolved", "rejected"})

\* C7 witness: the only re-authentication ended after a single failed login()
\* call, which it does only when stopped, and rejected a caller with that
\* login error: the caller was suspended after stop() and did not hang.
C7_Witness ==
  /\ \E j \in DOMAIN stopCall : stopCall[j].pc # "idle"
  /\ \A i \in Ticks : tick[i].logins > 0 => tick[i].pc = "done" /\ tick[i].logins = 1
  /\ \E w \in Waiters :
       /\ waiter[w].blocked
       /\ waiter[w].state = "rejected"
       /\ waiter[w].error \in LoginCodes

\* C8: a timer firing while a re-authentication is in flight or after stop()
\* returns at once: no heartbeat call, no re-authentication, nothing else changes.
C8_SkippedTickIsNoOp ==
  [][\A i \in Ticks :
       (tick[i].pc = "idle" /\ tick'[i].pc # "idle" /\ (stopped \/ reauthenticating))
         => /\ tick'[i].pc \notin {"heartbeat", "login", "totp", "backoff"}
            /\ tick' = [tick EXCEPT ![i].pc = tick'[i].pc]
            /\ UNCHANGED <<credentials, heartbeatInterval, reauthenticating,
                           reauthResolvers, stopped, session, activeTimers,
                           startCall, stopCall, waiter>>]_vars

\* C8 witness: one timer firing was skipped during a re-authentication.
C8_Witness ==
  /\ ReauthsInFlight = 1
  /\ \E i \in Ticks : tick[i].pc = "skipped"

\* C9: when the login() call of start() throws, start() rejects with that
\* error, calls login() no more and starts no timer; a timer is started only
\* in the step in which the login() call of a start() returns.
C9_StartFailurePropagates ==
  [][/\ \A i \in DOMAIN startCall, f \in [code : LoginCodes, clears : BOOLEAN] :
          StartLoginFail(i, f)
            => /\ startCall'[i] = [pc |-> "done", res |-> f.code]
               /\ UNCHANGED <<activeTimers, heartbeatInterval>>
     /\ (activeTimers' > activeTimers \/ (heartbeatInterval' /\ ~heartbeatInterval))
          => \E i \in DOMAIN startCall :
               InLogin(startCall[i].pc) /\ startCall'[i] = [pc |-> "done", res |-> "ok"]]_vars

\* C9 witness: a start() has rejected with a login error and no timer runs.
C9_Witness ==
  /\ \E i \in DOMAIN startCall : startCall[i].pc = "done" /\ startCall[i].res \in LoginCodes
  /\ activeTimers = 0
  /\ ~heartbeatInterval

\* C10: no stop() call ends by raising, whatever the state it was called in
\* and whether the logout call succeeds or fails.
C10_StopNeverRaises ==
  \A j \in DOMAIN stopCall :
    /\ stopCall[j].res # "raised"
    /\ stopCall[j].pc = "done" => stopCall[j].res = "returned"

\* C10 witness: a stop() called with a re-authentication in flight has
\* returned although its logout call failed.
C10_Witness ==
  /\ ReauthsInFlight = 1
  /\ \E j \in DOMAIN stopCall :
       stopCall[j].pc = "done" /\ stopCall[j].logout = "failed"
         /\ stopCall[j].res = "returned"

\* C11: when logout() has ended, by returning or by throwing, the local
\* session is cleared: status disconnected, no timestamps.
C11_LogoutAlwaysClears ==
  last.op = "logout" => session = EmptySession

\* C12: the step in which a stop() of the session manager completes leaves
\* the session status disconnected.
C12_StopEndsDisconnected ==
  [][\A j \in DOMAIN stopCall :
       (stopCall[j].pc = "logout" /\ stopCall'[j].pc = "done")
         => session'.status = "disconnected"]_vars

\* the last call of the service was a heartbeat() whose tickle call was answered
HeartbeatAnswered == last.op = "heartbeat" /\ last.reply # {}
\* the tickle response and the result of that heartbeat()
TickleResponse == Get(last.reply)
LastResult == Get(last.result)

\* C13: when the tickle call fails in transport, heartbeat() returns
\* valid=false and competing=false, sets the session's lastHeartbeat and
\* changes nothing else of the session: the status stays as it was.
C13_TransportFailureKeepsStatus ==
  [][HeartbeatReturn({})
       => /\ last'.op = "heartbeat" /\ last'.outcome = "returned"
          /\ Get(last'.result).valid = FALSE
          /\ Get(last'.result).competing = FALSE
          /\ session' = [session EXCEPT !.lastHeartbeat = TRUE]
          /\ session'.status = session.status]_vars

\* C13 witness: a heartbeat() whose tickle call failed has returned, and the
\* session is still authenticated, with lastHeartbeat set.
C13_Witness ==
  /\ last.op = "heartbeat" /\ last.reply = {}
  /\ ~LastResult.valid
  /\ session.status = "authenticated"
  /\ session.lastHeartbeat

\* C14: for every answered tickle call, heartbeat() reports competing=true
\* exactly when the nested iserver.authStatus.competing flag is true or the
\* top-level collission flag is true.
C14_CompetingIsLogicalOr ==
  HeartbeatAnswered
    => (LastResult.competing
          <=> (NestedCompeting(TickleResponse) = {TRUE}
                 \/ TickleResponse.collission = {TRUE}))

\* C15 as stated: for every ssoExpires value v of a tickle response and clock
\* T, the computed expiry is T + v when v is below the year-2000 threshold and
\* v when it is at or above it.
C15_ExpiryForEveryValue ==
  (HeartbeatAnswered /\ TickleResponse.ssoExpires # {})
    => LET v == Get(TickleResponse.ssoExpires) IN
         LastResult.ssoExpires = {IF v < YEAR_2000_MS THEN last.now + v ELSE v}

\* C15 as amended: for every ssoExpires value v > 0 the computed expiry is
\* T + v when v is below the threshold and v when it is at or above it; for
\* v <= 0, as for a response without ssoExpires, no expiry is computed.
C15_ExpiryForPositiveValue ==
  HeartbeatAnswered
    => IF TickleResponse.ssoExpires # {} /\ Get(TickleResponse.ssoExpires) > 0
       THEN LET v == Get(TickleResponse.ssoExpires) IN
              LastResult.ssoExpires = {IF v < YEAR_2000_MS THEN last.now + v ELSE v}
       ELSE LastResult.ssoExpires = {}

\* C15 witness: a value just below the threshold was added to the clock, which
\* gives a time no absolute reading of the value gives.
C15_Witness ==
  /\ HeartbeatAnswered
  /\ TickleResponse.ssoExpires = {YEAR_2000_MS - 1}
  /\ LastResult.ssoExpires = {last.now + YEAR_2000_MS - 1}

\* C16: for every answered tickle call, valid = authenticated and not
\* (computed expiry <= now), where authenticated is true when the nested
\* auth-status block is absent and the block's flag when the block gives one;
\* when valid is false the session status is expired.
C16_ValidIsAuthenticatedAndNotExpired ==
  HeartbeatAnswered
    => LET block == IserverAuthStatus(TickleResponse)
           expired == /\ LastResult.ssoExpires # {}
                      /\ Get(LastResult.ssoExpires) <= last.now
       IN  /\ block = {} => (LastResult.valid <=> ~expired)
           /\ \A b \in BOOLEAN :
                (block # {} /\ Get(block).authenticated = {b})
                  => (LastResult.valid <=> (b /\ ~expired))
           /\ ~LastResult.valid => session.status = "expired"

\* C16 witness: a response without the nested block, whose absolute expiry is
\* not after the clock, gave valid=false and an expired session.
C16_Witness ==
  /\ HeartbeatAnswered
  /\ IserverAuthStatus(TickleResponse) = {}
  /\ LastResult.ssoExpires # {}
  /\ ~LastResult.valid
  /\ session.status = "expired"

\* C17: when the first status probe of login() reports authenticated, login()
\* returns with the session marked authenticated, having called neither the
\* login capability nor session-init (nor anything but the probe).
C17_LoginShortCircuits ==
  [][\A reply \in Opt(AuthStatusWire) :
       (LoginProbe(reply) /\ reply # {} /\ Get(reply).authenticated = {TRUE})
         => /\ call' = NoCall
            /\ last'.op = "login" /\ last'.outcome = "returned"
            /\ last'.invoked = {"status"}
            /\ session'.status = "authenticated"
            /\ session'.authenticatedAt]_vars

\* C17 witness: a login() has returned after its first probe alone.
C17_Witness ==
  /\ last.op = "login" /\ last.outcome = "returned"
  /\ last.invoked = {"status"}
  /\ session.status = "authenticated"

\* C18: every error thrown by login, submitTOTP, checkAuthStatus, heartbeat
\* or logout is an AuthenticationError with one of the seven codes.
C18_OnlyAuthenticationErrors ==
  last.outcome = "threw" => last.error \in AuthenticationErrorCodes

\* C19: authenticatedAt is set exactly when the status has been authenticated
\* since the last clearSession().  It is unset and the status is not
\* authenticated at creation, and every step keeps the two together: after a
\* step authenticatedAt is set exactly when the step is no clearSession() and
\* either it was set before or the status is now authenticated.
C19_AuthenticatedAtIffReached ==
  /\ ~session.authenticatedAt /\ session.status # "authenticated"
  /\ [][session'.authenticatedAt
          <=> (/\ ~LogoutEnd(TRUE)
               /\ session.authenticatedAt \/ session'.status = "authenticated")]_vars

\* C19 witness: the session was authenticated and has expired since:
\* authenticatedAt is set although the status is not authenticated.
C19_Witness ==
  /\ session.authenticatedAt
  /\ session.status = "expired"

\* a holder assigns a field of a session object it was given
HolderAssigns ==
  \/ \E st \in SessionStatus : HolderAssignStatus(st)
  \/ \E f \in DateFields, present \in BOOLEAN : HolderAssignDate(f, present)

StartFindsNoGateway ==
  \/ PollTimer(TRUE)
  \/ /\ gw.process = {}
     /\ \/ \E startupError \in BOOLEAN : SpawnTimer(startupError)
        \/ PollTimer(FALSE)

FailureDetected ==
  /\ gw.killWaits = <<>>
  /\ ~gw.isShuttingDown
  /\ \/ \E p \in ChildSlots : ChildExit(p) /\ gw.status = "running"
     \/ HealthReturns(FALSE)

\* a restart() resumes after its stop(): at once when the timer fires, or
\* when the killProcess() it waited in resolves
RestartResumes ==
  \/ \E leaked \in BOOLEAN : RestartFires(leaked)
  \/ /\ Len(gw'.killWaits) < Len(gw.killWaits)
     /\ \E i \in 1..Len(gw.killWaits) : gw.killWaits[i].by = "restart"

C23_GivenUpStaysStopped ==
  /\ [](gw.gaveUp => gw.status = "stopped")
  /\ [][gw.gaveUp /\ gw'.gaveUp
          => /\ gw'.restartCount = gw.restartCount
             /\ StartsInProgress(gw') <= StartsInProgress(gw)]_vars

\* C24: restartCount never decreases. A start() or a stop() called from
\* outside leaves it unchanged, and so does the step in which a start(), that
\* of a restart included, succeeds; a start() that succeeds after a stop()
\* returned shows the count the stop() left.
C24_RestartCountNeverDecreases ==
  /\ [][gw'.restartCount >= gw.restartCount]_vars
  /\ [][GatewayStart \/ GatewayStop \/ ProbeReturns(TRUE)
          => gw'.restartCount = gw.restartCount]_vars

\* a gateway that was restarted, stopped from outside and started again is
\* running, with the restarts still counted
C24_Witness ==
  /\ gw.restartCount > 0
  /\ gw.countAtStop = {gw.restartCount}
  /\ ~gw.stopReturned
  /\ gw.status = "running"

\* C25: from the return of a stop() called from outside until start() is
\* called from outside again, the status is stopped, no health-check interval
\* and no restart timer is pending, and no automatic restart takes place (the
\* restart counter stays), whatever was in progress when stop() was called.
C25_StopReturnedStaysStopped ==
  /\ [](gw.stopReturned
          => /\ gw.status = "stopped"
             /\ Intervals(gw) = 0
             /\ RestartTimers(gw) = 0)
  /\ [][gw.stopReturned /\ gw'.stopReturned
          => gw'.restartCount = gw.restartCount]_vars

\* C26: in every reachable state of the supervisor, pid is set only while the
\* status is starting, running or unhealthy: never while it is stopped or
\* stopping.
C26_PidOnlyWhileUp ==
  gw.pid # {} => gw.status \in {"starting", "running", "unhealthy"}

(* ---------------------- claims on the gateway client ------------------ *)
\* C27: no request of an API caller is sent to the gateway while a
\* re-authentication is in flight: a request issued then waits until the
\* re-authentication has concluded.
C27_RequestsWaitForReauth ==
  \A k \in 1..Len(wire) : ~wire[k].reauthenticating

(* ------------------- claims on the waiters of a re-auth --------------- *)
\* C28: whenever the reauthenticating flag is false the list of pending
\* waiters is empty; a waitForReauth() caller that arrives while the flag is
\* false is settled by its own status check and is never suspended, and the
\* only callers a conclusion settles are those that were on the list.
C28_ConclusionAtomic ==
  /\ [](~reauthenticating => reauthResolvers = <<>>)
  /\ [][\A w \in 1..MaxCalls :
          /\ waiter[w].state = "none" /\ waiter'[w].state # "none"
               /\ ~reauthenticating
               => ~waiter'[w].blocked /\ waiter'[w].state # "pending"
          /\ waiter'[w] # waiter[w] /\ waiter'[w].blocked
               /\ waiter'[w].state # "pending"
               => waiter[w] = Pending /\ w \in Range(reauthResolvers)]_vars

\* a re-authentication has succeeded and resolved a suspended caller, and a
\* caller that arrived after it has been settled without being suspended
C28_Witness ==
  /\ ~stopped /\ ~reauthenticating
  /\ \E w1, w2 \in 1..MaxCalls :
       /\ w1 < w2
       /\ waiter[w1].blocked /\ waiter[w1].state = "resolved"
       /\ ~waiter[w2].blocked /\ waiter[w2].state # "none"

\* C30: in every step in which a waitForReauth() call resolves, at once or
\* after it was suspended, the session status the step leaves is
\* authenticated, whatever heartbeats, re-authentications and stop() calls
\* are in progress.
C30_ResolvedMeansAuthenticated ==
  [][\A w \in 1..MaxCalls :
       waiter'[w].state = "resolved" /\ waiter[w].state # "resolved"
         => session'.status = "authenticated"]_vars

\* a suspended caller has been resolved by a re-authentication while the
\* heartbeat of another timer callback is still awaited
C30_Witness ==
  /\ \E w \in 1..MaxCalls : waiter[w].state = "resolved" /\ waiter[w].blocked
  /\ \E i \in 1..MaxCalls : tick[i].pc = "heartbeat"

(* ----------------- claims on the start of a re-authentication --------- *)
\* the credentials passed to the most recent start() call
LastStartCredentials ==
  LET called == {k \in 1..MaxCalls : startCall[k].pc # "idle"}
  IN  IF called = {} THEN NoCredentials
      ELSE CredentialsOf(CHOOSE k \in called : \A l \in called : l <= k)

\* C29: when heartbeat() answers a timer callback with valid: false while the
\* manager is not stopped and no re-authentication is in flight, the step
\* sets the reauthenticating flag and calls login(); that call and every
\* later login() call of the sequence is made with the credentials passed to
\* the most recent start().
C29_InvalidHeartbeatStartsReauth ==
  /\ [][\A i \in 1..MaxCalls, o \in HeartbeatOutcomes :
          HeartbeatEnd(i, o) /\ ~HeartbeatValid(o) /\ ~stopped /\ ~reauthenticating
            => /\ reauthenticating'
               /\ tick'[i].pc = "login" /\ tick'[i].logins = 1]_vars
  /\ [][\A i \in 1..MaxCalls :
          tick'[i].pc = "login" /\ tick[i].pc # "login"
            => /\ LastStartCredentials' # NoCredentials
               /\ tick'[i].loginWith = LastStartCredentials']_vars

\* a re-authentication awaits a login() called with the credentials of a
\* second start()
C29_Witness ==
  \E i \in 1..MaxCalls :
    /\ tick[i].pc = "login"
    /\ reauthenticating
    /\ tick[i].loginWith = CredentialsOf(2)

(* ---------------- claims on the calls of the protocol engine ---------- *)
\* the login() calls that are executing: those start() awaits and those a
\* re-authentication awaits
LoginsExecuting ==
  Cardinality({i \in 1..MaxCalls : InLogin(startCall[i].pc)})
    + Cardinality({i \in 1..MaxCalls : InLogin(tick[i].pc)})

\* C31: at most one login() call of the authentication service is executing
\* at any time, counting the initial login of start() and the attempts of a
\* re-authentication.
C31_AtMostOneLogin == LoginsExecuting <= 1

(* ---------------- claims on the session manager after stop() ---------- *)
\* C32: once stop() has been called, and until start() is called again, no
\* waitForReauth() caller is resolved: in every step taken while the manager is
\* stopped, the waiters that are resolved afterwards were resolved before.
C32_NoResolveWhileStopped ==
  [][(stopped /\ stopped') =>
       \A w \in 1..MaxCalls :
         waiter'[w].state = "resolved" => waiter[w].state = "resolved"]_vars

(* ---------------- claims on the supervisor's child processes ---------- *)
\* C33: whenever the supervisor's status is stopped, no gateway child process
\* it spawned is still alive.
C33_StoppedMeansNoChildAlive ==
  gw.status = "stopped" => AliveChildren(gw) = {}

(* ---------------- claims on the supervisor's recovery ----------------- *)
\* start() was called once from outside and nothing else was: no stop() call
OnlyStarted == gw.calls = 1

\* an unexpected exit or a failed health check has been detected and the
\* restart counter is below the maximum
RecoveryDue ==
  /\ gw.status = "unhealthy"
  /\ gw.restartCount < MAX_RESTART_ATTEMPTS

\* C34: after an unexpected process exit or a failed health check with the
\* restart counter below the maximum, and with no stop() call, the supervisor
\* eventually is running again or the counter reaches the maximum: it does not
\* come to rest in stopped with the counter below the maximum.
C34_RecoveryCompletes ==
  (OnlyStarted /\ RecoveryDue)
    ~> (gw.status = "running" \/ gw.restartCount >= MAX_RESTART_ATTEMPTS
          \/ ~OnlyStarted)

(* ---------------- claims on login() of the service -------------------- *)
\* C35: whenever no login() call is executing, the session status is not
\* authenticating: a login() that fails leaves the status out of that state,
\* whatever its error code.
C35_AuthenticatingOnlyInLogin ==
  call.op # "login" => session.status # "authenticating"

(* ---------------- claims on the heartbeat timer ------------------------ *)
\* C36: at most one heartbeat timer of the session manager is active at any
\* time, for every sequence of start() and stop() calls.
C36_AtMostOneHeartbeatTimer == activeTimers <= 1

(* ---------------- claims on re-authentication after stop() ------------ *)
\* C37: after stop() is called, and as long as start() is not called again,
\* a re-authentication in flight starts no further login attempt and no
\* backoff wait: in every step taken while the manager is stopped no heartbeat
\* callback begins a login() and none begins to wait.
C37_NoFurtherAttemptAfterStop ==
  [][stopped =>
       \A i \in 1..MaxCalls :
         /\ tick'[i].logins = tick[i].logins
         /\ tick'[i].pc = "login" => tick[i].pc = "login"
         /\ tick'[i].pc = "backoff" => tick[i].pc = "backoff"]_vars

\* stop() has cut a re-authentication short: the manager is stopped and a
\* sequence has ended after a failed attempt, without a success and with
\* fewer attempts than the maximum
C37_Witness ==
  /\ stopped
  /\ \E i \in 1..MaxCalls :
       /\ tick[i].pc = "done"
       /\ tick[i].fails >= 1
       /\ tick[i].fails = tick[i].logins
       /\ tick[i].logins < MAX_REAUTH_ATTEMPTS

\* the follow-up probe of the session-init fallback yields authenticated
RetryAuthenticated(reply) ==
  reply # {} /\ NormalizeStatus(Get(reply)).authenticated

\* C38: in login()'s session-init fallback, when session-init has failed and
\* the follow-up status probe does not yield authenticated (it reports not
\* authenticated, or itself fails), login() fails with the session-init
\* error, as login() raises it; when the probe reports authenticated,
\* login() succeeds.
C38_FallbackSurfacesInitError ==
  [][\A reply \in Opt(AuthStatusWire) :
       LoginRetry(reply)
         => IF RetryAuthenticated(reply)
            THEN last'.outcome = "returned" /\ session'.status = "authenticated"
            ELSE /\ last'.outcome = "threw"
                 /\ last'.error = LoginCatch(session, call.initError).error]_vars

\* login() ends in this step
LoginEnds == call.op = "login" /\ call'.op = "none"

\* C39: when session-init answers login() with a non-empty challenge, the
\* session is marked awaiting_totp; with no one-time-code seed login() fails
\* with TOTP_REQUIRED and submits no response; with a seed the response is
\* submitted to session-init, a reply with the success flag marks the session
\* authenticated, and any other reply makes login() fail with TOTP_FAILED.
C39_ChallengeHandling ==
  /\ [][\A reply \in Opt(SsoInitWire) :
          LoginInit(reply) /\ reply # {} /\ IsTotpChallenge(Get(reply))
            => /\ session'.status = "awaiting_totp"
               /\ currentTotpSecret => call'.pc = "totp"
               /\ ~currentTotpSecret => call'.initError = "TOTP_REQUIRED"]_vars
  /\ [][LoginEnds /\ call.initError = "TOTP_REQUIRED"
          => /\ last'.outcome = "threw" /\ last'.error = "TOTP_REQUIRED"
             /\ "totpResponse" \notin last'.invoked]_vars
  /\ [][\A reply \in Opt(TotpChallengeWire) :
          LoginTotp(reply) /\ reply # {}
            => /\ "totpResponse" \in call'.invoked \cup last'.invoked
               /\ IF Truthy(Get(reply).authenticated)
                  THEN last'.outcome = "returned" /\ session'.status = "authenticated"
                  ELSE call'.initError = "TOTP_FAILED"]_vars
  /\ [][LoginEnds /\ call.initError = "TOTP_FAILED"
          => last'.outcome = "threw" /\ last'.error = "TOTP_FAILED"]_vars

\* C40: when the login capability reports failure, login() sets the session
\* status to disconnected, never attempts session-init, and fails with
\* HEADLESS_LOGIN_FAILED, except that a failure flagged
\* requiresManualIntervention fails with TOTP_REQUIRED instead.
C40_LoginCapabilityFailure ==
  [][\A result \in {{"failure"}, {"manual"}} :
       LoginHeadless(result)
         => /\ session'.status = "disconnected"
            /\ call'.op = "none"
            /\ last'.op = "login" /\ last'.outcome = "threw"
            /\ last'.error = IF result = {"manual"} THEN "TOTP_REQUIRED"
                             ELSE "HEADLESS_LOGIN_FAILED"
            /\ "init" \notin last'.invoked
            /\ "totpResponse" \notin last'.invoked]_vars

\* login() has failed on a login capability that asked for manual
\* intervention: session-init was never called
C40_Witness ==
  /\ last.op = "login" /\ last.outcome = "threw"
  /\ last.error = "TOTP_REQUIRED"
  /\ "loginCapability" \in last.invoked
  /\ "init" \notin last.invoked
  /\ session.status = "disconnected"

====
